---------------------------- MODULE Spec2Model ----------------------------
(***************************************************************************)
(* task-cli.js: a task tracker that keeps its tasks in one JSON file.      *)
(*                                                                         *)
(* Every invocation of the program runs one command: it loads the whole    *)
(* file, changes the collection in memory, and writes the whole file back. *)
(* Spec models invocations that run one after the other (one action per    *)
(* command, from argument check to exit).  SpecConc models two processes   *)
(* whose load and save steps interleave on the same file.                  *)
(*                                                                         *)
(* A JavaScript string is a sequence of one-character strings, so that     *)
(* parseInt and Array.join are computed character by character.  A         *)
(* timestamp is the integer reading of the clock: toISOString() formats    *)
(* it in a fixed-width form whose order is the order of the readings.      *)
(* The data directory is writable: writeFileSync does not throw.           *)
(***************************************************************************)
EXTENDS Integers, Sequences, FiniteSets

\* ---------------------------------------------------------------- bounds
MaxTasks == 2   \* add is not run on a collection that already holds this many
MaxId    == 3   \* add is not run when the id it would assign exceeds this
MaxClock == 1   \* the clock reads 0..MaxClock

\* --------------------------------------------------------------- strings
TODO        == <<"t", "o", "d", "o">>
IN_PROGRESS == <<"i", "n", "-", "p", "r", "o", "g", "r", "e", "s", "s">>
DONE        == <<"d", "o", "n", "e">>

\* const allowed = ['todo', 'in-progress', 'done']
allowed == {TODO, IN_PROGRESS, DONE}

DigitVal == [c \in {"0", "1", "2", "3", "4", "5", "6", "7", "8", "9"} |->
               CASE c = "0" -> 0 [] c = "1" -> 1 [] c = "2" -> 2 [] c = "3" -> 3
                 [] c = "4" -> 4 [] c = "5" -> 5 [] c = "6" -> 6 [] c = "7" -> 7
                 [] c = "8" -> 8 [] c = "9" -> 9]

IsDigit(c) == c \in DOMAIN DigitVal

NaN == [nan |-> TRUE, val |-> 0]

Num(n) == [nan |-> FALSE, val |-> n]

\* The string without its leading white space.
RECURSIVE TrimStart(_)
TrimStart(s) ==
  IF s # <<>> /\ Head(s) = " " THEN TrimStart(Tail(s)) ELSE s

\* The value of the longest prefix of digits of s, continuing from acc;
\* seen says whether a digit has been read.
RECURSIVE DigitsPrefix(_, _, _)
DigitsPrefix(s, acc, seen) ==
  IF s # <<>> /\ IsDigit(Head(s))
    THEN DigitsPrefix(Tail(s), 10 * acc + DigitVal[Head(s)], TRUE)
    ELSE IF seen THEN Num(acc) ELSE NaN

\* parseInt(s, 10): white space, an optional sign, then as many decimal
\* digits as there are; NaN when there is none.
ParseInt(s) ==
  LET t == TrimStart(s)
      neg == t # <<>> /\ Head(t) = "-"
      u == IF t # <<>> /\ Head(t) \in {"+", "-"} THEN Tail(t) ELSE t
      r == DigitsPrefix(u, 0, FALSE)
  IN IF r.nan THEN NaN ELSE IF neg THEN Num(0 - r.val) ELSE r

\* Array.prototype.join(' ') on an array of strings.
RECURSIVE Join(_)
Join(ss) ==
  IF ss = <<>> THEN <<>>
  ELSE IF Len(ss) = 1 THEN ss[1]
  ELSE ss[1] \o <<" ">> \o Join(Tail(ss))

\* args.slice(1)
Slice1(args) == IF args = <<>> THEN <<>> ELSE Tail(args)


\* ------------------------------------------------------------ task store
\* The data file: absent, blank (only white space), malformed JSON, valid
\* JSON that is not an array, or a JSON array of tasks.  json is what the
\* text spells: the array of an "array" file, the one task object (outside
\* any array) of a "nonarray" file and of a "malformed" one, whose text
\* breaks off before its end.
FileKinds == {"absent", "blank", "malformed", "nonarray", "array"}

Stray ==
  [id |-> 1, name |-> <<"s">>, description |-> <<>>, status |-> <<"t", "o", "d", "o">>,
   createdAt |-> 0, updatedAt |-> 0]

NoArray(kind) ==
  [kind |-> kind,
   json |-> IF kind \in {"malformed", "nonarray"} THEN <<Stray>> ELSE <<>>]

ArrayFile(tasks) == [kind |-> "array", json |-> tasks]

\* Mutant of LoadTasks: the Array.isArray test is left out.
LoadTasks_AnyJson(f) == IF f.kind \in {"array", "nonarray"} THEN f.json ELSE <<>>

\* loadTasks(): the array the file holds, [] for every other content.
LoadTasks(f) == IF f.kind = "array" THEN f.json ELSE <<>>

\* loadTasks() prints its warning when JSON.parse throws.
LoadWarns(f) == f.kind = "malformed"

\* saveTasks(tasks): the file becomes the JSON text of the array.
SaveTasks(tasks) == ArrayFile(tasks)

Max(S) == CHOOSE m \in S : \A n \in S : n <= m

\* Mutant of GetNextId: the number of tasks + 1.
GetNextId_Count(tasks) == Len(tasks) + 1

\* getNextId(tasks): max(existing ids) + 1, or 1.
GetNextId(tasks) ==
  LET ids == {n \in {tasks[i].id : i \in 1..Len(tasks)} : n \in Nat /\ n > 0}
  IN IF ids = {} THEN 1 ELSE Max(ids) + 1

\* tasks.findIndex(t => Number(t.id) === id): the first index, 0 for -1.
FindIndex(tasks, id) ==
  LET hits == {i \in 1..Len(tasks) : tasks[i].id = id}
  IN IF hits = {} THEN 0 ELSE CHOOSE i \in hits : \A j \in hits : i <= j

\* Mutant of FilterOut: tasks.splice(idx) drops the task and all after it.
FilterOut_From(tasks, id) ==
  LET hits == {i \in 1..Len(tasks) : tasks[i].id = id}
  IN IF hits = {} THEN tasks
     ELSE SubSeq(tasks, 1, (CHOOSE i \in hits : \A j \in hits : i <= j) - 1)

\* tasks.filter(t => Number(t.id) !== id)
FilterOut(tasks, id) == SelectSeq(tasks, LAMBDA t : t.id # id)

\* ------------------------------------------------------ command handlers
\* What a handler does with the loaded file f at clock reading now:
\*   exit  the exit status;  save  whether saveTasks is called, with tasks;
\*   out   the ids printed on standard output;  warn  loadTasks' warning.
Exit1 == [exit |-> 1, save |-> FALSE, tasks |-> <<>>, out |-> <<>>, warn |-> FALSE]

Fail(f) == [Exit1 EXCEPT !.warn = LoadWarns(f)]

Saved(f, tasks, out) ==
  [exit |-> 0, save |-> TRUE, tasks |-> tasks, out |-> out, warn |-> LoadWarns(f)]

NewTask(id, name, description, now) ==
  [id |-> id, name |-> name, description |-> description, status |-> TODO,
   createdAt |-> now, updatedAt |-> now]

\* Mutant of cmdAdd: tasks.unshift(task).
cmdAdd_Prepends(args, f, now) ==
  IF Len(args) = 0 THEN Exit1
  ELSE LET name == args[1]
           description == IF Len(args) > 1 THEN Join(Slice1(args)) ELSE <<>>
           tasks == LoadTasks(f)
           id == GetNextId(tasks)
       IN Saved(f, <<NewTask(id, name, description, now)>> \o tasks, <<id>>)

cmdAdd(args, f, now) ==
  IF Len(args) = 0 THEN Exit1
  ELSE LET name == args[1]
           description == IF Len(args) > 1 THEN Join(Slice1(args)) ELSE <<>>
           tasks == LoadTasks(f)
           id == GetNextId(tasks)
       IN Saved(f, Append(tasks, NewTask(id, name, description, now)), <<id>>)

\* Mutant of cmdUpdate: the task's status is set back to todo as well.
cmdUpdate_ResetsStatus(args, f, now) ==
  IF Len(args) < 2 THEN Exit1
  ELSE LET id == ParseInt(args[1])
           newDesc == Join(Slice1(args))
           tasks == LoadTasks(f)
           idx == FindIndex(tasks, id.val)
       IN IF id.nan THEN Exit1
          ELSE IF idx = 0 THEN Fail(f)
          ELSE Saved(f, [tasks EXCEPT ![idx].description = newDesc,
                                      ![idx].status = TODO,
                                      ![idx].updatedAt = now], <<id.val>>)

cmdUpdate(args, f, now) ==
  IF Len(args) < 2 THEN Exit1
  ELSE LET id == ParseInt(args[1])
           newDesc == Join(Slice1(args))
           tasks == LoadTasks(f)
           idx == FindIndex(tasks, id.val)
       IN IF id.nan THEN Exit1
          ELSE IF idx = 0 THEN Fail(f)
          ELSE Saved(f, [tasks EXCEPT ![idx].description = newDesc,
                                      ![idx].updatedAt = now], <<id.val>>)

\* Mutant of cmdDelete: saveTasks is called before the length test.
cmdDelete_SavesFirst(args, f) ==
  IF Len(args) < 1 THEN Exit1
  ELSE LET id == ParseInt(args[1])
           tasks == LoadTasks(f)
           kept == FilterOut(tasks, id.val)
       IN IF id.nan THEN Exit1
          ELSE IF Len(kept) = Len(tasks) THEN [Fail(f) EXCEPT !.save = TRUE, !.tasks = kept]
          ELSE Saved(f, kept, <<id.val>>)

cmdDelete(args, f) ==
  IF Len(args) < 1 THEN Exit1
  ELSE LET id == ParseInt(args[1])
           tasks == LoadTasks(f)
           kept == FilterOut(tasks, id.val)
       IN IF id.nan THEN Exit1
          ELSE IF Len(kept) = Len(tasks) THEN Fail(f)
          ELSE Saved(f, kept, <<id.val>>)

\* Mutant of cmdMark: the new time is written to createdAt.
cmdMark_StampsCreated(args, newStatus, f, now) ==
  IF Len(args) < 1 THEN Exit1
  ELSE LET id == ParseInt(args[1])
           tasks == LoadTasks(f)
           idx == FindIndex(tasks, id.val)
       IN IF id.nan THEN Exit1
          ELSE IF idx = 0 THEN Fail(f)
          ELSE Saved(f, [tasks EXCEPT ![idx].status = newStatus,
                                      ![idx].createdAt = now], <<id.val>>)

\* Mutant of cmdMark: a task that has the status already is left alone.
cmdMark_SkipsSame(args, newStatus, f, now) ==
  IF Len(args) < 1 THEN Exit1
  ELSE LET id == ParseInt(args[1])
           tasks == LoadTasks(f)
           idx == FindIndex(tasks, id.val)
       IN IF id.nan THEN Exit1
          ELSE IF idx = 0 THEN Fail(f)
          ELSE IF tasks[idx].status = newStatus THEN Saved(f, tasks, <<id.val>>)
          ELSE Saved(f, [tasks EXCEPT ![idx].status = newStatus,
                                      ![idx].updatedAt = now], <<id.val>>)

cmdMark(args, newStatus, f, now) ==
  IF Len(args) < 1 THEN Exit1
  ELSE LET id == ParseInt(args[1])
           tasks == LoadTasks(f)
           idx == FindIndex(tasks, id.val)
       IN IF id.nan THEN Exit1
          ELSE IF idx = 0 THEN Fail(f)
          ELSE Saved(f, [tasks EXCEPT ![idx].status = newStatus,
                                      ![idx].updatedAt = now], <<id.val>>)

\* The ids of the tasks list prints, in stored order.
RECURSIVE Ids(_)
Ids(tasks) == IF tasks = <<>> THEN <<>> ELSE <<Head(tasks).id>> \o Ids(Tail(tasks))

cmdList(args, f) ==
  LET isFilter == Len(args) > 0 /\ args[1] # <<>>
      tasks == LoadTasks(f)
      toPrint == IF isFilter THEN SelectSeq(tasks, LAMBDA t : t.status = args[1])
                 ELSE tasks
  IN IF isFilter /\ args[1] \notin allowed THEN Exit1
     ELSE [exit |-> 0, save |-> FALSE, tasks |-> <<>>, out |-> Ids(toPrint),
           warn |-> LoadWarns(f)]

\* ----------------------------------------------------------------- state
VARIABLES
  file,    \* the data file
  clock,   \* the reading of the clock at the latest invocation
  last,    \* the latest invocation: its verb, arguments, exit status, output
  issued,  \* history: the ids that add has assigned so far
  repeat,  \* history: the latest invocation repeated the one before, which exited 0
  pc,      \* SpecConc: where each process is in its invocation
  mem,     \* SpecConc: each process's verb, arguments, loaded array, result,
           \* and whether its save overwrote a file changed since its load
  writer   \* SpecConc: the process whose save wrote the file last, 0 for none

vars == <<file, clock, last, issued, repeat, pc, mem, writer>>

Procs == {1, 2}

NoInvocation ==
  [cmd |-> "none", args |-> <<>>, exit |-> 0, out |-> <<>>, warn |-> FALSE]

Idle ==
  [cmd |-> "none", args |-> <<>>, loaded |-> <<>>, res |-> Exit1, stale |-> FALSE]

\* The data file before the first invocation: not there, or not an array.
Init ==
  /\ file \in {NoArray(k) : k \in FileKinds \ {"array"}}
  /\ clock = 0
  /\ last = NoInvocation
  /\ issued = {}
  /\ repeat = FALSE
  /\ pc = [p \in Procs |-> "idle"]
  /\ mem = [p \in Procs |-> Idle]
  /\ writer = 0

\* ---------------------------------------------------------------- inputs
A == <<"a">>
X == <<"x">>
Y == <<"y">>
Empty == <<>>

\* add: no argument, a name, the empty name, a name and two words.
AddArgs == {<<>>, <<A>>, <<Empty>>, <<A, X, Y>>}

\* Ids as typed: "1", "2x" (parseInt reads 2), "3", " 1" and "-1" in update's
\* case, "x" and "" (NaN).
UpdateArgs == {<<>>, <<<<"1">>>>, <<<<"x">>, Y>>, <<<<"1">>, Y>>, <<<<"1">>, Empty>>,
               <<<<"2", "x">>, Y>>, <<<<"3">>, X, Y>>, <<<<" ", "1">>, X, Y>>,
               <<<<"-", "1">>, Y>>}

OneIdArgs == {<<>>, <<<<"1">>>>, <<<<"2", "x">>>>, <<<<"3">>>>, <<<<"x">>>>,
              <<Empty>>}

ListArgs == {<<>>, <<DONE>>, <<Empty>>, <<X>>}

\* The bounds of the model: add runs only while what it builds fits them.
InBounds(r) ==
  r.save => /\ Len(r.tasks) <= MaxTasks
            /\ \A i \in 1..Len(r.tasks) : r.tasks[i].id <= MaxId

Label(verb, args, r) ==
  [cmd |-> verb, args |-> args, exit |-> r.exit, out |-> r.out, warn |-> r.warn]

\* ------------------------------------------- invocations, one at a time
\* An invocation from main() to exit: the handler returned r at reading now.
Invoke(verb, args, r, now) ==
  /\ clock' = now
  /\ file' = IF r.save THEN SaveTasks(r.tasks) ELSE file
  /\ last' = Label(verb, args, r)
  /\ issued' = IF verb = "add" /\ r.save THEN issued \cup {r.out[1]} ELSE issued
  /\ repeat' = (last.cmd = verb /\ last.args = args /\ last.exit = 0)
  /\ UNCHANGED <<pc, mem, writer>>

Add ==
  \E args \in AddArgs, now \in clock..MaxClock :
    LET r == cmdAdd(args, file, now)
    IN InBounds(r) /\ Invoke("add", args, r, now)

Update ==
  \E args \in UpdateArgs, now \in clock..MaxClock :
    Invoke("update", args, cmdUpdate(args, file, now), now)

Delete ==
  \E args \in OneIdArgs, now \in clock..MaxClock :
    Invoke("delete", args, cmdDelete(args, file), now)

MarkInProgress ==
  \E args \in OneIdArgs, now \in clock..MaxClock :
    Invoke("mark-in-progress", args, cmdMark(args, IN_PROGRESS, file, now), now)

MarkDone ==
  \E args \in OneIdArgs, now \in clock..MaxClock :
    Invoke("mark-done", args, cmdMark(args, DONE, file, now), now)

List ==
  \E args \in ListArgs, now \in clock..MaxClock :
    Invoke("list", args, cmdList(args, file), now)

\* help, no verb, or the empty verb: printHelp().
Help ==
  \E now \in clock..MaxClock :
    Invoke("help", <<>>, [Exit1 EXCEPT !.exit = 0], now)

\* Any other verb: the message, printHelp(), exit 1.
Unknown ==
  \E now \in clock..MaxClock : Invoke("unknown", <<>>, Exit1, now)

Next ==
  \/ Add
  \/ Update
  \/ Delete
  \/ MarkInProgress
  \/ MarkDone
  \/ List
  \/ Help
  \/ Unknown

Spec == Init /\ [][Next]_vars

\* ------------------------------------- two invocations that interleave
\* The file is not locked: between a process's loadTasks() and its
\* saveTasks() the other process may load and save.
ConcAddArgs == {<<A>>, <<Empty, X>>}

ConcIdArgs == {<<<<"1">>>>}

\* From main() to the point before saveTasks(), or to the exit of an
\* invocation that does not save.
Begin(p, verb, args, r, now) ==
  /\ pc[p] = "idle"
  /\ InBounds(r)
  /\ clock' = now
  /\ mem' = [mem EXCEPT ![p] = [cmd |-> verb, args |-> args,
                                 loaded |-> LoadTasks(file), res |-> r,
                                 stale |-> FALSE]]
  /\ pc' = [pc EXCEPT ![p] = IF r.save THEN "loaded" ELSE "done"]
  /\ issued' = IF verb = "add" /\ r.save THEN issued \cup {r.out[1]} ELSE issued
  /\ UNCHANGED <<file, last, repeat, writer>>

BeginAdd(p) ==
  \E args \in ConcAddArgs, now \in clock..MaxClock :
    Begin(p, "add", args, cmdAdd(args, file, now), now)

BeginDelete(p) ==
  \E args \in ConcIdArgs, now \in clock..MaxClock :
    Begin(p, "delete", args, cmdDelete(args, file), now)

BeginMarkDone(p) ==
  \E args \in ConcIdArgs, now \in clock..MaxClock :
    Begin(p, "mark-done", args, cmdMark(args, DONE, file, now), now)

\* Mutant of Save: the write is refused when the file has changed since
\* the load.
Save_Exclusive(p) ==
  /\ pc[p] = "loaded"
  /\ file' = IF LoadTasks(file) # mem[p].loaded THEN file
             ELSE SaveTasks(mem[p].res.tasks)
  /\ writer' = p
  /\ pc' = [pc EXCEPT ![p] = "done"]
  /\ mem' = [mem EXCEPT ![p].stale = (LoadTasks(file) # mem[p].loaded)]
  /\ UNCHANGED <<clock, last, issued, repeat>>

\* saveTasks(tasks) and the confirmation line.  stale records that the
\* file no longer held what the process had loaded.
Save(p) ==
  /\ pc[p] = "loaded"
  /\ file' = SaveTasks(mem[p].res.tasks)
  /\ writer' = p
  /\ pc' = [pc EXCEPT ![p] = "done"]
  /\ mem' = [mem EXCEPT ![p].stale = (LoadTasks(file) # mem[p].loaded)]
  /\ UNCHANGED <<clock, last, issued, repeat>>

\* The process exits; the next invocation may start.
Exit(p) ==
  /\ pc[p] = "done"
  /\ pc' = [pc EXCEPT ![p] = "idle"]
  /\ mem' = [mem EXCEPT ![p] = Idle]
  /\ UNCHANGED <<file, clock, last, issued, repeat, writer>>

NextConc ==
  \E p \in Procs :
    \/ BeginAdd(p)
    \/ BeginDelete(p)
    \/ BeginMarkDone(p)
    \/ Save(p)
    \/ Exit(p)

SpecConc == Init /\ [][NextConc]_vars

\* ---------------------------------------------------------------- claims
\* The tasks a file holds, read off the file itself.
Stored(f) == IF f.kind = "array" THEN f.json ELSE <<>>

StoredIds(f) == {Stored(f)[i].id : i \in 1..Len(Stored(f))}

Statuses == {<<"t", "o", "d", "o">>,
             <<"i", "n", "-", "p", "r", "o", "g", "r", "e", "s", "s">>,
             <<"d", "o", "n", "e">>}

\* The id an invocation's first argument names.
TypedId(args) == ParseInt(args[1])

\* C1 as stated: the id an add assigns is strictly greater than the id
\* every earlier add assigned, so no id is ever assigned twice.
C1_NeverReassigned ==
  [][(last'.cmd = "add" /\ last'.exit = 0)
       => \A j \in issued : last'.out[1] > j]_vars

\* C1 amended: the id an add assigns is strictly greater than the id of
\* every task stored when the add runs, and it is the id of the task the
\* add stores; an id assigned before comes back only when no stored task
\* has that id or a greater one.
C1_AboveStored ==
  [][(last'.cmd = "add" /\ last'.exit = 0)
       => /\ \A j \in StoredIds(file) : last'.out[1] > j
          /\ Stored(file')[Len(Stored(file'))].id = last'.out[1]
          /\ last'.out[1] \in issued
               => \A j \in StoredIds(file) : j < last'.out[1]]_vars

\* add, add, delete 1, add: the third task gets id 3, not 1.
C1_Witness ==
  /\ last.cmd = "add" /\ last.exit = 0 /\ last.out = <<3>>
  /\ Len(Stored(file)) = 2
  /\ Stored(file)[1].id = 2 /\ Stored(file)[2].id = 3
  /\ issued = {1, 2, 3}

\* C2: every stored task has a positive integer id that no other stored
\* task shares, one of the three statuses, and updatedAt >= createdAt.
C2_TaskInvariants ==
  \A i \in 1..Len(Stored(file)) :
    LET t == Stored(file)[i]
    IN /\ t.id \in Nat /\ t.id > 0
       /\ \A j \in 1..Len(Stored(file)) : j # i => Stored(file)[j].id # t.id
       /\ t.status \in Statuses
       /\ t.updatedAt >= t.createdAt

C2_Witness ==
  /\ Len(Stored(file)) = 2
  /\ Stored(file)[1].status = <<"d", "o", "n", "e">>
  /\ Stored(file)[1].updatedAt > Stored(file)[1].createdAt
  /\ Stored(file)[2].status # <<"t", "o", "d", "o">>
  /\ Stored(file)[2].status # <<"d", "o", "n", "e">>

\* The invocations C3 calls failing, on the file f they start from.
C3_NotFound(args, f) == TypedId(args).val \notin StoredIds(f)

C3_Fails(cmd, args, f, emptyFilterToo) ==
  \/ cmd = "add" /\ args = <<>>
  \/ cmd = "update"
       /\ (Len(args) < 2 \/ TypedId(args).nan \/ C3_NotFound(args, f))
  \/ cmd \in {"delete", "mark-in-progress", "mark-done"}
       /\ (Len(args) < 1 \/ TypedId(args).nan \/ C3_NotFound(args, f))
  \/ cmd = "list" /\ Len(args) > 0 /\ args[1] \notin Statuses
       /\ (emptyFilterToo \/ args[1] # <<>>)

JoinedBySpaces(ss) ==
  IF ss = <<>> THEN <<>>
  ELSE LET n == Len(ss)
           start[i \in 1..n] == IF i = 1 THEN 0 ELSE start[i - 1] + Len(ss[i - 1]) + 1
       IN [k \in 1..(start[n] + Len(ss[n])) |->
             LET i == CHOOSE j \in 1..n : start[j] < k + 1 /\ k <= start[j] + Len(ss[j]) + 1
             IN IF k = start[i] + Len(ss[i]) + 1 THEN " " ELSE ss[i][k - start[i]]]

\* C4: a successful update changes the description and updatedAt of the
\* task whose id matches and nothing else: its id, name, status and
\* createdAt, every other task, and the number and order of tasks stay.
C4_UpdateFrame ==
  [][(last'.cmd = "update" /\ last'.exit = 0)
       => LET old == Stored(file)
              new == Stored(file')
              id == TypedId(last'.args).val
          IN /\ file'.kind = "array"
             /\ Len(new) = Len(old)
             /\ \E i \in 1..Len(old) : old[i].id = id
             /\ \A i \in 1..Len(old) :
                  IF old[i].id = id
                    THEN /\ new[i].id = old[i].id
                         /\ new[i].name = old[i].name
                         /\ new[i].status = old[i].status
                         /\ new[i].createdAt = old[i].createdAt
                         /\ new[i].description = JoinedBySpaces(Tail(last'.args))
                         /\ new[i].updatedAt = clock'
                    ELSE new[i] = old[i]]_vars

\* update " 1" x y on two tasks, the first one done before the update.
C4_Witness ==
  /\ last.cmd = "update" /\ last.exit = 0
  /\ last.args = <<<<" ", "1">>, <<"x">>, <<"y">>>>
  /\ Len(Stored(file)) = 2
  /\ Stored(file)[1].id = 1
  /\ Stored(file)[1].description = <<"x", " ", "y">>
  /\ Stored(file)[1].status = <<"d", "o", "n", "e">>
  /\ Stored(file)[1].updatedAt > Stored(file)[1].createdAt
  /\ Stored(file)[2].description = <<>>

\* C5 as stated: after every command each stored task has a non-empty
\* name, and a task that stays stored keeps its name.
C5_NamesNonEmptyAndFixed ==
  [][/\ \A i \in 1..Len(Stored(file')) : Stored(file')[i].name # <<>>
     /\ last'.cmd # "add"
          => \A i \in 1..Len(Stored(file)), j \in 1..Len(Stored(file')) :
               Stored(file)[i].id = Stored(file')[j].id
                 => Stored(file)[i].name = Stored(file')[j].name]_vars

\* C6: mark-done on a stored task succeeds, sets its status to done and
\* its updatedAt to the time of the run, and changes nothing else; run
\* again on the same task right after, it finds the status done, leaves it
\* done and sets updatedAt again.
C6_MarkDoneTwice ==
  [][(/\ last'.cmd = "mark-done"
      /\ Len(last'.args) > 0
      /\ ~TypedId(last'.args).nan
      /\ TypedId(last'.args).val \in StoredIds(file))
       => LET old == Stored(file)
              new == Stored(file')
              id == TypedId(last'.args).val
              again == /\ last.cmd = "mark-done"
                       /\ last.exit = 0
                       /\ TypedId(last.args).val = id
          IN /\ last'.exit = 0
             /\ Len(new) = Len(old)
             /\ \A i \in 1..Len(old) :
                  IF old[i].id = id
                    THEN /\ new[i] = [id |-> old[i].id, name |-> old[i].name,
                                      description |-> old[i].description,
                                      status |-> <<"d", "o", "n", "e">>,
                                      createdAt |-> old[i].createdAt,
                                      updatedAt |-> clock']
                         /\ again => /\ old[i].status = <<"d", "o", "n", "e">>
                                     /\ old[i].updatedAt = clock
                    ELSE new[i] = old[i]]_vars

\* The second of two mark-done 1 in a row, later than the task's creation.
C6_Witness ==
  /\ last.cmd = "mark-done" /\ last.exit = 0 /\ repeat
  /\ last.args = <<<<"1">>>>
  /\ Len(Stored(file)) = 2
  /\ Stored(file)[1].id = 1
  /\ Stored(file)[1].status = <<"d", "o", "n", "e">>
  /\ Stored(file)[1].updatedAt = clock
  /\ Stored(file)[1].updatedAt > Stored(file)[1].createdAt

\* C7: on a file that is absent, blank, malformed or not an array, every
\* command sees an empty collection: add with a name exits 0 and writes
\* the array of the one new task, id 1; list exits 0 and prints nothing;
\* update, delete and mark exit 1; all but that add leave the file as is.
C7_CorruptIsEmpty ==
  [][file.kind # "array"
       => LET addsTask == last'.cmd = "add" /\ last'.args # <<>>
          IN /\ addsTask
                  => /\ last'.exit = 0
                     /\ last'.out = <<1>>
                     /\ file'.kind = "array"
                     /\ Len(file'.json) = 1
                     /\ file'.json[1].id = 1
                     /\ file'.json[1].name = last'.args[1]
             /\ ~addsTask => file' = file
             /\ (/\ last'.cmd = "list"
                 /\ (last'.args = <<>> \/ last'.args[1] \in Statuses \cup {<<>>}))
                  => last'.exit = 0 /\ last'.out = <<>>
             /\ last'.cmd \in {"update", "delete", "mark-in-progress", "mark-done"}
                  => last'.exit = 1]_vars

\* add a on the malformed file: loadTasks warned, the file is the new task.
C7_Witness ==
  /\ last.cmd = "add" /\ last.exit = 0 /\ last.warn
  /\ file.kind = "array"
  /\ Len(file.json) = 1
  /\ file.json[1].id = 1
  /\ file.json[1].name = <<"a">>

C10_BothAdded ==
  /\ \A p \in Procs : pc[p] = "done" /\ mem[p].cmd = "add" /\ mem[p].res.exit = 0
  /\ mem[1].loaded = mem[2].loaded

\* C10: when two add invocations have loaded the same collection and both
\* have saved, both report the same new id and the file is what the later
\* save wrote: the loaded collection and the later writer's task, without
\* the task of the earlier writer.
C10_LastWriterWins ==
  C10_BothAdded
    => /\ writer \in Procs
       /\ mem[1].res.out = mem[2].res.out
       /\ file.kind = "array"
       /\ Len(file.json) = Len(mem[writer].loaded) + 1
       /\ \A i \in 1..Len(mem[writer].loaded) : file.json[i] = mem[writer].loaded[i]
       /\ file.json[Len(file.json)].id = mem[writer].res.out[1]
       /\ file.json[Len(file.json)].name = mem[writer].args[1]

\* Both loaded the one stored task, both reported id 2; the later save
\* overwrote a file that had changed, and the earlier writer's task is gone.
C10_Witness ==
  /\ C10_BothAdded
  /\ writer \in Procs
  /\ mem[writer].stale
  /\ Len(mem[1].loaded) = 1
  /\ mem[1].res.out = <<2>> /\ mem[2].res.out = <<2>>
  /\ mem[1].args[1] # mem[2].args[1]
  /\ Len(file.json) = 2
  /\ file.json[2].name = mem[writer].args[1]

=============================================================================
